---------------------------- MODULE Spec2Model ----------------------------
(***************************************************************************)
(* A model of market_system's ingestion pipeline                           *)
(* (src/src/market_system/ingestion/reader.py): header validation, block   *)
(* decoding, contract resolution, depth-day discovery, the optional wipe,  *)
(* depth ingestion and depth-gated trade ingestion with per-day buffers.   *)
(*                                                                         *)
(* Time is counted in ticks of 12 hours instead of microseconds (TLC's     *)
(* integers are 32 bits wide); every conversion is kept: platform tick ->  *)
(* Unix tick by subtraction of the epoch offset, Unix tick -> UTC day by   *)
(* floor division.  Byte counts (header and record sizes) are the real     *)
(* ones; a decoded record is identified by the byte offset it was cut at.  *)
(***************************************************************************)
EXTENDS Integers, Sequences, FiniteSets, TLC

VARIABLES
    cfg,        \* IngestConfig of the run
    srcFiles,   \* the .scid candidates of the source directory, in glob order
    scidFile,   \* content of the resolved trade file
    depthDir,   \* listing of the MarketDepthData directory, in iterdir order
    locked,     \* output paths whose deletion raises OSError
    disk,       \* output files: path -> rows
    pc,         \* position of ScidIngestor.ingest
    contract,   \* (root, month letter, yy) parsed from the resolved file
    depth_map,  \* day -> index in depthDir of the file discovered for it
    depth_days, \* the allowed-day set
    days_todo,  \* sorted depth days still to ingest
    recs_todo,  \* decoded trade records not yet processed (byte offsets)
    day_bufs,   \* per-day trade buffers, in insertion order
    total,      \* trade rows accepted so far
    log,        \* I/O events of the run, oldest first
    run,        \* 1 for the first invocation of ingest, 2 for the repeat
    disk0,      \* the output as it was before the first invocation
    disk1,      \* the output as the first invocation left it
    rd,         \* state of one block-decoding loop
    rs,         \* one call of _choose_latest_contract
    hv,         \* one call of a header validator
    fo,         \* one file opened for decoding
    pw,         \* one call of ParquetWriter.write and the read back
    tc,         \* one conversion of a timestamp
    vw          \* the replay state of one ViewerApp

vars == <<cfg, srcFiles, scidFile, depthDir, locked, disk, pc, contract,
          depth_map, depth_days, days_todo, recs_todo, day_bufs, total, log,
          run, disk0, disk1, rd, rs, hv, fo, pw, tc, vw>>

ingestVars == <<cfg, srcFiles, scidFile, depthDir, locked, disk, pc, contract,
                depth_map, depth_days, days_todo, recs_todo, day_bufs, total,
                log, run, disk0, disk1>>

Min(a, b) == IF a <= b THEN a ELSE b

Range(s) == {s[i] : i \in DOMAIN s}

RECURSIVE SeqsUpTo(_, _)
\* every sequence over S of length at most n
SeqsUpTo(S, n) ==
    IF n = 0 THEN {<<>>}
    ELSE LET shorter == SeqsUpTo(S, n - 1)
         IN  shorter \cup {Append(s, x) : s \in shorter, x \in S}

None == "None"

\* an optional value is the empty set or the set of the value
Nothing == {}

Some(x) == {x}

The(S) == CHOOSE x \in S : TRUE

(***************************************************************************)
(* Sierra time conversion                                                  *)
(***************************************************************************)
\* ticks of the model's clock per UTC day (a tick stands for 43,200,000,000 us)
TicksPerDay == 2

\* days from 1899-12-30 to 1970-01-01
SC_EPOCH_DAYS == 25569

SC_TO_UNIX_US == SC_EPOCH_DAYS * TicksPerDay

\* the day number, counted from 1970-01-01, of the date y-m-d of the
\* proleptic Gregorian calendar: what datetime(y, m, d) - _UNIX_EPOCH is
DaysFromCivil(y, m, d) ==
    LET yy == IF m <= 2 THEN y - 1 ELSE y
        era == yy \div 400
        yoe == yy - era * 400
        mp == IF m > 2 THEN m - 3 ELSE m + 9
        doy == (153 * mp + 2) \div 5 + d - 1
        doe == yoe * 365 + yoe \div 4 - yoe \div 100 + doy
    IN  era * 146097 + doe - 719468

\* the test's _unix_to_sc_us, on the microseconds of its datetime
unix_to_sc_us(unix_us) == unix_us + SC_TO_UNIX_US

\* a variant of sc_us_to_unix_us that counts from 1899-12-31
sc_us_to_unix_us_1231(sc_us) == sc_us - (SC_EPOCH_DAYS - 1) * TicksPerDay

sc_us_to_unix_us(sc_us) == sc_us - SC_TO_UNIX_US

\* a variant of UtcDate that rounds up to the next day
UtcDateCeil(unix_us) == (unix_us + TicksPerDay - 1) \div TicksPerDay

\* datetime.utcfromtimestamp(unix_us / 1_000_000).date(), as a day number
UtcDate(unix_us) == unix_us \div TicksPerDay


(***************************************************************************)
(* Contracts and file names.  A .scid file name ROOT MON YY suffix .scid   *)
(* is the record of its parts: root, mon (one letter), yy (the two digits  *)
(* as a number) and sfx (the rank of the suffix among the suffixes, which  *)
(* orders two paths that agree on root, mon and yy).                       *)
(***************************************************************************)
MONTH_CODES == <<"F", "G", "H", "J", "K", "M", "N", "Q", "U", "V", "X", "Z">>

MONTH_ORDER(m) == (CHOOSE i \in DOMAIN MONTH_CODES : MONTH_CODES[i] = m) - 1

ES_QUARTERLY == {"H", "M", "U", "Z"}

\* a variant of month_letter_for_es that lets every month code through
month_letter_any(mon) == mon \in Range(MONTH_CODES)

month_letter_for_es(mon) == mon \in ES_QUARTERLY

\* _CONTRACT_RE matches: the letter after the root is a month code
parse_ok(name) == name.mon \in Range(MONTH_CODES)

parse_contract_from_scid_name(name) ==
    [root |-> name.root, mon |-> name.mon, yy |-> name.yy]

\* a variant of ScoredLess that compares year and month only
ScoredLessNoPath(a, b) ==
    \/ a.yy < b.yy
    \/ a.yy = b.yy /\ MONTH_ORDER(a.mon) < MONTH_ORDER(b.mon)

\* a variant of ScoredLess that ranks by month before year
ScoredLessMonthFirst(a, b) ==
    \/ MONTH_ORDER(a.mon) < MONTH_ORDER(b.mon)
    \/ MONTH_ORDER(a.mon) = MONTH_ORDER(b.mon) /\ a.yy < b.yy
    \/ a.yy = b.yy /\ MONTH_ORDER(a.mon) = MONTH_ORDER(b.mon) /\ a.sfx < b.sfx

\* the tuple (int(yy), MONTH_ORDER[mon], p) of a is below that of b
ScoredLess(a, b) ==
    \/ a.yy < b.yy
    \/ a.yy = b.yy /\ MONTH_ORDER(a.mon) < MONTH_ORDER(b.mon)
    \/ a.yy = b.yy /\ MONTH_ORDER(a.mon) = MONTH_ORDER(b.mon) /\ a.sfx < b.sfx

\* the loop of _choose_latest_contract: the files that are scored
Scored(scid_files, root) ==
    SelectSeq(scid_files,
              LAMBDA p : /\ parse_ok(p)
                         /\ parse_contract_from_scid_name(p).root = root
                         /\ (root = "ES" => month_letter_for_es(p.mon)))

RECURSIVE SortedLast(_)
\* scored.sort(); scored[-1]: the greatest element of a non-empty list
SortedLast(scored) ==
    IF Len(scored) = 1 THEN scored[1]
    ELSE LET rest == SortedLast(Tail(scored))
         IN  IF ScoredLess(rest, scored[1]) THEN scored[1] ELSE rest

NoCandidates == [error |-> "FileNotFoundError"]

choose_latest_contract(scid_files, root) ==
    LET scored == Scored(scid_files, root)
    IN  IF scored = <<>> THEN NoCandidates ELSE SortedLast(scored)

(***************************************************************************)
(* Binary formats.  A header is the record of the bytes the read returned  *)
(* (len) and of its fields; the fields of a short header are never looked  *)
(* at by a validator that rejects on the length.                           *)
(***************************************************************************)
SCID_HDR_SIZE == 56

SCID_REC_SIZE == 40

DEPTH_HDR_SIZE == 64

DEPTH_REC_SIZE == 24

\* the length below which _read_depth_header itself rejects the header
DEPTH_HDR_MIN == 16

\* records per read block, for both formats
BLOCK_RECS == 65536

SCID_MAGIC == "SCID"

DEPTH_MAGIC == "SCDD"

\* a variant of read_scid_header that enforces version 1
read_scid_header_v1(hdr) ==
    IF hdr.len # SCID_HDR_SIZE THEN "too_short"
    ELSE IF hdr.magic # SCID_MAGIC THEN "bad_magic"
    ELSE IF hdr.hdr_size # SCID_HDR_SIZE THEN "bad_hdr_size"
    ELSE IF hdr.rec_size # SCID_REC_SIZE THEN "bad_rec_size"
    ELSE IF hdr.version # 1 THEN "bad_version"
    ELSE "ok"

read_scid_header(hdr) ==
    IF hdr.len # SCID_HDR_SIZE THEN "too_short"
    ELSE IF hdr.magic # SCID_MAGIC THEN "bad_magic"
    ELSE IF hdr.hdr_size # SCID_HDR_SIZE THEN "bad_hdr_size"
    ELSE IF hdr.rec_size # SCID_REC_SIZE THEN "bad_rec_size"
    ELSE "ok"

\* struct.unpack raises struct.error on a buffer that is not 64 bytes long
read_depth_header(hdr) ==
    IF hdr.len < DEPTH_HDR_MIN THEN "too_short"
    ELSE IF hdr.len # DEPTH_HDR_SIZE THEN "struct_error"
    ELSE IF hdr.magic # DEPTH_MAGIC THEN "bad_magic"
    ELSE IF hdr.hdr_size # DEPTH_HDR_SIZE THEN "bad_hdr_size"
    ELSE IF hdr.rec_size # DEPTH_REC_SIZE THEN "bad_rec_size"
    ELSE "ok"

\* a variant of ChunkRecords that decodes nothing from a chunk that is not
\* a whole number of records
ChunkRecordsWhole(pos, chunk_len, rec_size) ==
    IF chunk_len % rec_size # 0 THEN <<>>
    ELSE [k \in 1..(chunk_len \div rec_size) |-> pos + (k - 1) * rec_size]

\* the records struct.iter_unpack cuts from one chunk read at offset pos:
\* the trailing len(chunk) % rec_size bytes are trimmed off first
ChunkRecords(pos, chunk_len, rec_size) ==
    [k \in 1..(chunk_len \div rec_size) |-> pos + (k - 1) * rec_size]

\* f.read(block_sz) at offset pos of a record stream of data_len bytes
ReadLen(pos, data_len, block_sz) == Min(block_sz, data_len - pos)

RECURSIVE ReadLoop(_, _, _, _)
\* the whole "while True: chunk = f.read(block_sz) ..." loop from offset pos
ReadLoop(pos, data_len, block_sz, rec_size) ==
    LET n == ReadLen(pos, data_len, block_sz)
    IN  IF n = 0 THEN <<>>
        ELSE ChunkRecords(pos, n, rec_size)
             \o ReadLoop(pos + n, data_len, block_sz, rec_size)

(***************************************************************************)
(* The variables of the ingest run while one of the pure functions below   *)
(* is exercised on its own, and the other way round.                       *)
(***************************************************************************)
Idle == [state |-> "idle"]

IngestIdle ==
    /\ cfg = Idle /\ srcFiles = <<>> /\ scidFile = Idle /\ depthDir = <<>>
    /\ locked = {} /\ disk = <<>> /\ pc = "idle" /\ contract = Idle
    /\ depth_map = <<>> /\ depth_days = {} /\ days_todo = <<>>
    /\ recs_todo = <<>> /\ day_bufs = <<>> /\ total = 0 /\ log = <<>>
    /\ run = 0 /\ disk0 = <<>> /\ disk1 = <<>>

(***************************************************************************)
(* SpecDecode: the block-reading loop of _ingest_scid_trades and of        *)
(* _read_write_depth_day on a record stream of data_len bytes, one read    *)
(* per step.  The block size is an input; the one the program uses is      *)
(* BLOCK_RECS records.                                                     *)
(***************************************************************************)
MaxDataLen == 90

RecSize(fmt) == IF fmt = "scid" THEN SCID_REC_SIZE ELSE DEPTH_REC_SIZE

BlockSizes(fmt) ==
    {RecSize(fmt), RecSize(fmt) + RecSize(fmt) \div 4, 2 * RecSize(fmt),
     BLOCK_RECS * RecSize(fmt)}

InitDecode ==
    /\ IngestIdle /\ rs = Idle /\ hv = Idle
    /\ fo = Idle /\ pw = Idle /\ vw = Idle /\ tc = Idle
    /\ \E fmt \in {"scid", "depth"}, n \in 0..MaxDataLen :
       \E b \in BlockSizes(fmt) :
          rd = [fmt |-> fmt, data_len |-> n, block_sz |-> b, pos |-> 0,
                out |-> <<>>, state |-> "reading"]

\* chunk = f.read(block_sz) returned bytes: trim, unpack, loop
DecodeRead ==
    LET n == ReadLen(rd.pos, rd.data_len, rd.block_sz)
    IN  /\ rd.state = "reading"
        /\ n > 0
        /\ rd' = [rd EXCEPT !.out = @ \o ChunkRecords(rd.pos, n, RecSize(rd.fmt)),
                            !.pos = @ + n]
        /\ UNCHANGED <<ingestVars, rs, hv, fo, pw, tc, vw>>

\* if not chunk: break
DecodeEof ==
    /\ rd.state = "reading"
    /\ ReadLen(rd.pos, rd.data_len, rd.block_sz) = 0
    /\ rd' = [rd EXCEPT !.state = "eof"]
    /\ UNCHANGED <<ingestVars, rs, hv, fo, pw, tc, vw>>

NextDecode == DecodeRead \/ DecodeEof

SpecDecode == InitDecode /\ [][NextDecode]_vars

(***************************************************************************)
(* SpecResolve: _resolve_scid on a source directory.                       *)
(***************************************************************************)
MaxCands == 2

CandidateNames ==
    [root : {"ES", "NQ"}, mon : {"H", "U", "X", "A"}, yy : {24, 25},
     sfx : {0, 1}]

\* source.glob(f"{root}[A-Z][0-9][0-9]*.scid"): a name of this shape
\* matches exactly when its root is the requested one
Glob(files, root) == SelectSeq(files, LAMBDA p : p.root = root)

\* the directory branch of _resolve_scid
resolve_scid(files, root) ==
    LET candidates == Glob(files, root)
    IN  IF candidates = <<>> THEN NoCandidates
        ELSE choose_latest_contract(candidates, root)

InitResolve ==
    /\ IngestIdle /\ rd = Idle /\ hv = Idle
    /\ fo = Idle /\ pw = Idle /\ vw = Idle /\ tc = Idle
    /\ \E files \in SeqsUpTo(CandidateNames, MaxCands), root \in {"ES", "NQ"} :
          rs = [files |-> files, root |-> root, state |-> "called",
                result |-> Idle]

ResolveCall ==
    /\ rs.state = "called"
    /\ rs' = [rs EXCEPT !.result = resolve_scid(rs.files, rs.root),
                        !.state = "returned"]
    /\ UNCHANGED <<ingestVars, rd, hv, fo, pw, tc, vw>>

NextResolve == ResolveCall

SpecResolve == InitResolve /\ [][NextResolve]_vars

(***************************************************************************)
(* SpecHeader: one call of _read_scid_header or _read_depth_header on a    *)
(* file whose first bytes are hdr.                                         *)
(***************************************************************************)
HeaderLens == {0, DEPTH_HDR_MIN - 1, DEPTH_HDR_MIN, SCID_HDR_SIZE - 1,
               SCID_HDR_SIZE, DEPTH_HDR_SIZE - 1, DEPTH_HDR_SIZE}

Headers ==
    [len : HeaderLens, magic : {SCID_MAGIC, DEPTH_MAGIC, "JUNK"},
     hdr_size : {SCID_HDR_SIZE, DEPTH_HDR_SIZE},
     rec_size : {SCID_REC_SIZE, DEPTH_REC_SIZE}, version : {0, 1, 2}]

HdrSize(fmt) == IF fmt = "scid" THEN SCID_HDR_SIZE ELSE DEPTH_HDR_SIZE

\* f.read(HDR_SIZE) returns at most HDR_SIZE bytes
InitHeader ==
    /\ IngestIdle /\ rd = Idle /\ rs = Idle
    /\ fo = Idle /\ pw = Idle /\ vw = Idle /\ tc = Idle
    /\ \E fmt \in {"scid", "depth"}, h \in Headers :
          /\ h.len <= HdrSize(fmt)
          /\ hv = [fmt |-> fmt, hdr |-> h, result |-> None]

ValidateScid ==
    /\ hv.fmt = "scid" /\ hv.result = None
    /\ hv' = [hv EXCEPT !.result = read_scid_header(hv.hdr)]
    /\ UNCHANGED <<ingestVars, rd, rs, fo, pw, tc, vw>>

ValidateDepth ==
    /\ hv.fmt = "depth" /\ hv.result = None
    /\ hv' = [hv EXCEPT !.result = read_depth_header(hv.hdr)]
    /\ UNCHANGED <<ingestVars, rd, rs, fo, pw, tc, vw>>

NextHeader == ValidateScid \/ ValidateDepth

SpecHeader == InitHeader /\ [][NextHeader]_vars

(***************************************************************************)
(* One timestamp converted: a platform tick to Unix time, or a Unix time   *)
(* to a platform tick and back.                                            *)
(***************************************************************************)
MaxTick == 30

InitTime ==
    /\ IngestIdle /\ rd = Idle /\ rs = Idle /\ hv = Idle /\ fo = Idle
    /\ pw = Idle /\ vw = Idle
    /\ \E x \in (0 - MaxTick)..MaxTick :
          \/ tc = [from |-> "tick", x |-> x, sc_us |-> Some(x),
                   unix_us |-> Nothing]
          \/ tc = [from |-> "unix", x |-> x, sc_us |-> Nothing,
                   unix_us |-> Nothing]

\* _unix_to_sc_us(dt) of the test
TimeToTick ==
    /\ tc.from = "unix" /\ tc.sc_us = Nothing
    /\ tc' = [tc EXCEPT !.sc_us = Some(unix_to_sc_us(tc.x))]
    /\ UNCHANGED <<ingestVars, rd, rs, hv, fo, pw, vw>>

\* _sc_us_to_unix_us(sc_us)
TimeToUnix ==
    /\ tc.sc_us # Nothing /\ tc.unix_us = Nothing
    /\ tc' = [tc EXCEPT !.unix_us = Some(sc_us_to_unix_us(The(tc.sc_us)))]
    /\ UNCHANGED <<ingestVars, rd, rs, hv, fo, pw, vw>>

NextTime == TimeToTick \/ TimeToUnix

SpecTime == InitTime /\ [][NextTime]_vars

(***************************************************************************)
(* One file opened for decoding, at one of the three places that do so:    *)
(* the trade file (site "trades"), a depth file of an allowed day (site    *)
(* "depth") and an undated depth file peeked by discovery (site "peek").   *)
(* A file is its header, the number of whole records after it and the      *)
(* number of bytes of a cut-off last record; pos is the file position.     *)
(***************************************************************************)
MaxOpenRecs == 2

FileSize(file, fmt) == file.hdr.len + file.nrecs * RecSize(fmt) + file.tail

\* a file with fewer bytes than a header has nothing after them
OpenFiles(fmt) ==
    {f \in [hdr : Headers, nrecs : 0..MaxOpenRecs, tail : {0, 1}] :
        /\ f.hdr.len <= HdrSize(fmt)
        /\ f.hdr.len < HdrSize(fmt) => f.nrecs = 0 /\ f.tail = 0}

\* a variant of HeaderBytesRead that asks for the shortest header only
HeaderBytesReadMin(fmt, size) == Min(DEPTH_HDR_MIN, size)

\* len(f.read(HDR_SIZE)) on a file of size bytes, read from its start
HeaderBytesRead(fmt, size) == Min(HdrSize(fmt), size)

InitOpen ==
    /\ IngestIdle /\ rd = Idle /\ rs = Idle /\ hv = Idle /\ pw = Idle
    /\ tc = Idle /\ vw = Idle
    /\ \E site \in {"trades", "depth", "peek"} :
       \E file \in OpenFiles(IF site = "trades" THEN "scid" ELSE "depth") :
          fo = [site |-> site,
                fmt |-> IF site = "trades" THEN "scid" ELSE "depth",
                file |-> file, pos |-> 0, validated |-> 0, result |-> None,
                decoded |-> <<>>, state |-> "opened"]

\* with open(...) as f: self._read_*_header(f); an exception leaves the
\* with block, and at the peek it is swallowed by except Exception: pass
OpenReadHeader ==
    /\ fo.state = "opened"
    /\ LET n == HeaderBytesRead(fo.fmt, FileSize(fo.file, fo.fmt))
           hdr == [fo.file.hdr EXCEPT !.len = n]
           r == IF fo.fmt = "scid" THEN read_scid_header(hdr)
                ELSE read_depth_header(hdr)
       IN  fo' = [fo EXCEPT !.pos = n, !.validated = @ + 1, !.result = r,
                            !.state = IF r = "ok" THEN "reading"
                                      ELSE IF fo.site = "peek" THEN "closed"
                                      ELSE "raised"]
    /\ UNCHANGED <<ingestVars, rd, rs, hv, pw, tc, vw>>

\* one non-empty chunk of the block loop of the trade or depth ingestion
OpenReadBlock ==
    /\ fo.state = "reading" /\ fo.site # "peek"
    /\ LET n == ReadLen(fo.pos, FileSize(fo.file, fo.fmt),
                        BLOCK_RECS * RecSize(fo.fmt))
       IN  /\ n > 0
           /\ fo' = [fo EXCEPT
                        !.decoded = @ \o ChunkRecords(fo.pos, n, RecSize(fo.fmt)),
                        !.pos = @ + n]
    /\ UNCHANGED <<ingestVars, rd, rs, hv, pw, tc, vw>>

\* if not chunk: break, and the with block closes the file
OpenEof ==
    /\ fo.state = "reading" /\ fo.site # "peek"
    /\ ReadLen(fo.pos, FileSize(fo.file, fo.fmt),
               BLOCK_RECS * RecSize(fo.fmt)) = 0
    /\ fo' = [fo EXCEPT !.state = "closed"]
    /\ UNCHANGED <<ingestVars, rd, rs, hv, pw, tc, vw>>

\* first = f.read(_DEPTH_REC_SIZE); unpacked only when it is a whole record
OpenPeekRecord ==
    /\ fo.state = "reading" /\ fo.site = "peek"
    /\ LET n == ReadLen(fo.pos, FileSize(fo.file, fo.fmt), DEPTH_REC_SIZE)
       IN  fo' = [fo EXCEPT
                     !.decoded = IF n = DEPTH_REC_SIZE THEN <<fo.pos>> ELSE <<>>,
                     !.pos = @ + n,
                     !.state = "closed"]
    /\ UNCHANGED <<ingestVars, rd, rs, hv, pw, tc, vw>>

NextOpen == OpenReadHeader \/ OpenReadBlock \/ OpenEof \/ OpenPeekRecord

SpecOpen == InitOpen /\ [][NextOpen]_vars

(***************************************************************************)
(* The ingest run.  Days are Unix day numbers; an output path              *)
(* out_root/<root>/<yy>/<mon>/<day>/<kind>/<root><mon><yy>.<day>.parquet   *)
(* is the record of its parts.                                             *)
(***************************************************************************)
\* 2025-08-26, the first day of the test's ticks, as a Unix day number
FirstDay == 20326

Days == {FirstDay, FirstDay + 1}

MaxTrades == 2

MaxFlushRows == 2

MaxDepthFiles == 2

\* the platform tick of the k-th tick of Unix day d (the test's _unix_to_sc_us)
ScTick(d, k) == (d + SC_EPOCH_DAYS) * TicksPerDay + k

TradeTicks == {ScTick(d, k) : d \in Days, k \in 0..(TicksPerDay - 1)}

Magic(fmt) == IF fmt = "scid" THEN SCID_MAGIC ELSE DEPTH_MAGIC

GoodHdr(fmt) ==
    [len |-> HdrSize(fmt), magic |-> Magic(fmt), hdr_size |-> HdrSize(fmt),
     rec_size |-> RecSize(fmt), version |-> 1]

\* bytes after the header of a file
DataLen(file, fmt) == Len(file.recs) * RecSize(fmt) + file.tail

Path(c, day, kind) ==
    [root |-> c.root, yy |-> c.yy, mon |-> c.mon, day |-> day, kind |-> kind]

\* a variant of UnderBase that takes the whole root for the base
UnderRoot(p, c) == p.root = c.root

\* p lies under out_root/<root>/<yy>/<mon> of contract c
UnderBase(p, c) == p.root = c.root /\ p.yy = c.yy /\ p.mon = c.mon

\* a variant of write_table that adds the rows to an existing file
write_table_append(d, p, rows) ==
    [q \in (DOMAIN d) \cup {p} |->
        IF q # p THEN d[q]
        ELSE IF p \in DOMAIN d THEN d[p] \o rows ELSE rows]

\* pq.write_table(tbl, path): creates the file or replaces its content
write_table(d, p, rows) ==
    [q \in (DOMAIN d) \cup {p} |-> IF q = p THEN rows ELSE d[q]]

Ev(op, kind, file, day, rows) ==
    [op |-> op, kind |-> kind, file |-> file, day |-> day, rows |-> rows]

RECURSIVE SortedDays(_)
\* sorted(...) of a set of days
SortedDays(S) ==
    IF S = {} THEN <<>>
    ELSE LET m == CHOOSE x \in S : \A y \in S : x <= y
         IN  <<m>> \o SortedDays(S \ {m})

\* the rows decoded from a file: one per record cut by the read loop, the
\* record at byte offset off being the (off / rec_size + 1)-th of the file
DecodedRows(file, fmt) ==
    LET offs == ReadLoop(0, DataLen(file, fmt), BLOCK_RECS * RecSize(fmt),
                         RecSize(fmt))
    IN  [k \in DOMAIN offs |->
            LET i == offs[k] \div RecSize(fmt) + 1
            IN  [ts |-> sc_us_to_unix_us(file.recs[i]), rec |-> i]]

(***************************************************************************)
(* Depth-day discovery                                                     *)
(***************************************************************************)
\* the fallback of _discover_depth_files: header, then the first record;
\* Nothing when the try block raises or the first read is short
PeekDay(file) ==
    IF read_depth_header(file.hdr) # "ok" THEN Nothing
    ELSE IF Len(file.recs) = 0 THEN Nothing
    ELSE Some(UtcDate(sc_us_to_unix_us(file.recs[1])))

\* a variant of FileDay that prefers the first record to the name
FileDayPeekFirst(file) ==
    IF PeekDay(file) # Nothing THEN PeekDay(file) ELSE file.name_day

\* the day a candidate file is indexed under, Nothing when it is skipped
FileDay(file) ==
    IF file.name_day # Nothing THEN file.name_day ELSE PeekDay(file)

RECURSIVE DiscoverFromFirstWins(_, _, _)
\* a variant of DiscoverFrom that keeps the first file of a day
DiscoverFromFirstWins(listing, i, day_map) ==
    IF i > Len(listing) THEN day_map
    ELSE LET f == listing[i]
             d == FileDay(f)
         IN  IF f.stem /\ d # Nothing
             THEN DiscoverFromFirstWins(listing, i + 1,
                      [x \in (DOMAIN day_map) \cup d |->
                          IF x \in DOMAIN day_map THEN day_map[x] ELSE i])
             ELSE DiscoverFromFirstWins(listing, i + 1, day_map)

RECURSIVE DiscoverFrom(_, _, _)
\* the loop over depth_files: later files replace earlier ones of a day
DiscoverFrom(listing, i, day_map) ==
    IF i > Len(listing) THEN day_map
    ELSE LET f == listing[i]
             d == FileDay(f)
         IN  IF f.stem /\ d # Nothing
             THEN DiscoverFrom(listing, i + 1,
                      [x \in (DOMAIN day_map) \cup d |->
                          IF x \in d THEN i ELSE day_map[x]])
             ELSE DiscoverFrom(listing, i + 1, day_map)

\* {} when the depth directory does not exist, else the index of its files
discover_depth_files(listing) ==
    IF ~cfg.source.depth_dir THEN <<>> ELSE DiscoverFrom(listing, 1, <<>>)

\* the text of a --start or --end option: iso tells whether
\* datetime.fromisoformat accepts it, day is the date it then yields
DateStr(d) == [iso |-> TRUE, day |-> d]

\* a text fromisoformat rejects with ValueError, such as "yesterday"
BadDateStr == [iso |-> FALSE, day |-> FirstDay]

\* datetime.fromisoformat(s).date(), for a text it accepts
fromisoformat(s) == s.day

\* a variant of FilterDays with exclusive bounds
FilterDaysExclusive(days, start, end) ==
    {d \in days : /\ \A s \in start : d > fromisoformat(s)
                  /\ \A e \in end : d < fromisoformat(e)}

\* the two comprehensions of ingest that narrow depth_days
FilterDays(days, start, end) ==
    {d \in days : /\ \A s \in start : d >= fromisoformat(s)
                  /\ \A e \in end : d <= fromisoformat(e)}

(***************************************************************************)
(* Wipe                                                                    *)
(***************************************************************************)
\* the entries _wipe_contract_output unlinks: the files under base, but for
\* those whose unlink raises OSError
WipeTargets(c) == {p \in DOMAIN disk : UnderBase(p, c)}

\* a variant of Wiped that gives up at the first entry it cannot remove
WipedUntilError(c) == IF WipeTargets(c) \cap locked = {} THEN WipeTargets(c) ELSE {}

Wiped(c) == WipeTargets(c) \ locked

(***************************************************************************)
(* Trades                                                                  *)
(***************************************************************************)
\* a variant of Accepts without the depth gate
AcceptsAnyDay(d) ==
    /\ \A s \in cfg.start : d >= fromisoformat(s)
    /\ \A e \in cfg.end : d <= fromisoformat(e)

\* lines 241-248: the record of day d is kept
Accepts(d) ==
    /\ \A s \in cfg.start : d >= fromisoformat(s)
    /\ \A e \in cfg.end : d <= fromisoformat(e)
    /\ d \in depth_days

BufferedRows(bufs) ==
    LET RECURSIVE Sum(_)
        Sum(i) == IF i = 0 THEN 0 ELSE Len(bufs[i].rows) + Sum(i - 1)
    IN  Sum(Len(bufs))

\* a variant of FlushDue that compares each day's buffer with the threshold
FlushDuePerDay(bufs) == \E i \in DOMAIN bufs : Len(bufs[i].rows) >= cfg.flush_rows

\* a variant of FlushDue that waits until the threshold is exceeded
FlushDueLate(bufs) == BufferedRows(bufs) > cfg.flush_rows

\* line 280: the buffered rows have reached flush_rows
FlushDue(bufs) == BufferedRows(bufs) >= cfg.flush_rows

\* day_bufs after the row is appended to the buffer of day d
AppendRow(bufs, d, row) ==
    IF \E i \in DOMAIN bufs : bufs[i].day = d
    THEN [i \in DOMAIN bufs |->
             IF bufs[i].day = d
             THEN [bufs[i] EXCEPT !.rows = Append(@, row)]
             ELSE bufs[i]]
    ELSE Append(bufs, [day |-> d, rows |-> <<row>>])

RECURSIVE FlushDisk(_, _)
\* the output after _flush_trade_days wrote every non-empty buffer
FlushDisk(d, bufs) ==
    IF bufs = <<>> THEN d
    ELSE IF Head(bufs).rows = <<>> THEN FlushDisk(d, Tail(bufs))
    ELSE FlushDisk(write_table(d, Path(contract, Head(bufs).day, "trades"),
                               Head(bufs).rows),
                   Tail(bufs))

\* the writes of _flush_trade_days, in the order of the buffers
FlushEvents(bufs) ==
    LET kept == SelectSeq(bufs, LAMBDA b : b.rows # <<>>)
    IN  [i \in DOMAIN kept |-> Ev("write", "trades", 0, kept[i].day, kept[i].rows)]

\* a variant of FlushLeft that writes the buffers and keeps them
FlushLeftKept(bufs) == bufs

\* the buffers _flush_trade_days leaves: each written one is deleted
FlushLeft(bufs) == SelectSeq(bufs, LAMBDA b : b.rows = <<>>)

(***************************************************************************)
(* ScidIngestor.ingest, one step per statement that does I/O               *)
(***************************************************************************)
\* a variant of IngestOrder with the wipe after both ingestions
IngestOrderWipeLast ==
    <<"resolve", "discover", "filter", "depth", "trades", "wipe", "done">>

\* a variant of IngestOrder with the trades ingested before the depth
IngestOrderTradesFirst ==
    <<"resolve", "discover", "filter", "wipe", "trades", "depth", "done">>

\* the order of the steps of ingest
IngestOrder ==
    <<"resolve", "discover", "filter", "wipe", "depth", "trades", "done">>

PcAfter(p) ==
    IngestOrder[(CHOOSE i \in DOMAIN IngestOrder : IngestOrder[i] = p) + 1]

Raise(kind, file) == Ev("raise", kind, file, Nothing, <<>>)

\* a variant of AfterRaise that removes the contract's output on an error
AfterRaiseCleanup(d) ==
    [p \in {q \in DOMAIN d : ~UnderBase(q, contract)} |-> d[p]]

\* the output once an exception has left ingest: the calls of lines 156-179
\* sit in no try block, so nothing is undone
AfterRaise(d) == d

\* a variant of resolve_source that searches the directory of a file source
resolve_source_dir(source, files, root) == resolve_scid(files, root)

\* _resolve_scid: a source that is a .scid file is returned as it is
resolve_source(source, files, root) ==
    IF source.file # Nothing THEN The(source.file)
    ELSE resolve_scid(files, root)

\* lines 125-130: the contract is parsed from the name of the resolved file
ResolveContract ==
    /\ pc = "resolve"
    /\ LET r == resolve_source(cfg.source, srcFiles, cfg.symbol)
       IN  IF r = NoCandidates \/ ~parse_ok(r)
           THEN /\ pc' = "failed"
                /\ log' = Append(log, Raise("resolve", 0))
                /\ UNCHANGED contract
           ELSE /\ contract' = parse_contract_from_scid_name(r)
                /\ pc' = PcAfter("resolve")
                /\ UNCHANGED log
    /\ UNCHANGED <<cfg, srcFiles, scidFile, depthDir, locked, disk, depth_map,
                   depth_days, days_todo, recs_todo, day_bufs, total, run,
                   disk0, disk1, rd, rs, hv,
                   fo, pw, tc, vw>>

\* depth_map = self._discover_depth_files(...); depth_days = set(keys)
IndexDepthDays ==
    /\ pc = "discover"
    /\ depth_map' = discover_depth_files(depthDir)
    /\ depth_days' = DOMAIN depth_map'
    /\ pc' = PcAfter("discover")
    /\ UNCHANGED <<cfg, srcFiles, scidFile, depthDir, locked, disk, contract,
                   days_todo, recs_todo, day_bufs, total, log, run, disk0,
                   disk1, rd, rs, hv,
                   fo, pw, tc, vw>>

\* a variant of WipeRequested that keeps the output when no depth day is
\* indexed
WipeRequestedIfIndexed == cfg.overwrite /\ depth_map # <<>>

\* if cfg.overwrite: the wipe depends on nothing else
WipeRequested == cfg.overwrite

\* lines 137-146: each given bound is parsed, then narrows depth_days; a
\* text that does not parse raises ValueError out of ingest
ApplyDateFilter ==
    /\ pc = "filter"
    /\ IF \E s \in cfg.start \cup cfg.end : ~s.iso
       THEN /\ pc' = "failed"
            /\ log' = Append(log, Raise("range", 0))
            /\ UNCHANGED depth_days
       ELSE /\ depth_days' = FilterDays(depth_days, cfg.start, cfg.end)
            /\ pc' = IF WipeRequested THEN PcAfter("filter")
                     ELSE PcAfter("wipe")
            /\ UNCHANGED log
    /\ UNCHANGED <<cfg, srcFiles, scidFile, depthDir, locked, disk, contract,
                   depth_map, days_todo, recs_todo, day_bufs, total, run,
                   disk0, disk1, rd, rs, hv,
                   fo, pw, tc, vw>>

WipeExistingOutput ==
    /\ pc = "wipe"
    /\ disk' = [p \in (DOMAIN disk) \ Wiped(contract) |-> disk[p]]
    /\ log' = Append(log, Ev("wipe", "output", 0, Nothing, Wiped(contract)))
    /\ pc' = PcAfter("wipe")
    /\ UNCHANGED <<cfg, srcFiles, scidFile, depthDir, locked, contract,
                   depth_map, depth_days, days_todo, recs_todo, day_bufs,
                   total, run, disk0, disk1, rd, rs, hv,
                   fo, pw, tc, vw>>

\* _ingest_depth_files up to its loop
IngestDepthFiles ==
    /\ pc = "depth"
    /\ LET days == SortedDays((DOMAIN depth_map) \cap depth_days)
       IN  /\ days_todo' = days
           /\ pc' = IF days = <<>> THEN PcAfter("depth") ELSE "depth_loop"
    /\ UNCHANGED <<cfg, srcFiles, scidFile, depthDir, locked, disk, contract,
                   depth_map, depth_days, recs_todo, day_bufs, total, log,
                   run, disk0, disk1, rd, rs, hv, fo, pw, tc, vw>>

\* one iteration of the loop: _read_write_depth_day
IngestDepthDay ==
    /\ pc = "depth_loop"
    /\ LET day == Head(days_todo)
           i == depth_map[day]
           file == depthDir[i]
           rows == DecodedRows(file, "depth")
       IN  IF read_depth_header(file.hdr) # "ok"
           THEN /\ pc' = "failed"
                /\ log' = log \o <<Ev("open", "depth", i, Some(day), <<>>),
                                   Raise("depth", i)>>
                /\ disk' = AfterRaise(disk)
                /\ UNCHANGED days_todo
           ELSE /\ disk' = write_table(disk, Path(contract, day, "depth"), rows)
                /\ log' = log \o <<Ev("open", "depth", i, Some(day), <<>>),
                                   Ev("write", "depth", i, day, rows)>>
                /\ days_todo' = Tail(days_todo)
                /\ pc' = IF Tail(days_todo) = <<>> THEN PcAfter("depth")
                         ELSE "depth_loop"
    /\ UNCHANGED <<cfg, srcFiles, scidFile, depthDir, locked, contract,
                   depth_map, depth_days, recs_todo, day_bufs, total, run,
                   disk0, disk1, rd, rs, hv,
                   fo, pw, tc, vw>>

\* a variant of TradesSkipped that always reads the trade file
TradesSkippedNever(allowed_days) == FALSE

\* lines 199-201: if not allowed_days: return
TradesSkipped(allowed_days) == allowed_days = {}

\* _ingest_scid_trades up to its loop
IngestTradesOpen ==
    /\ pc = "trades"
    /\ IF TradesSkipped(depth_days)
       THEN /\ pc' = PcAfter("trades")
            /\ UNCHANGED <<recs_todo, day_bufs, total, log, disk>>
       ELSE IF read_scid_header(scidFile.hdr) # "ok"
       THEN /\ pc' = "failed"
            /\ log' = log \o <<Ev("open", "trades", 0, Nothing, <<>>),
                               Raise("trades", 0)>>
            /\ disk' = AfterRaise(disk)
            /\ UNCHANGED <<recs_todo, day_bufs, total>>
       ELSE /\ recs_todo' = DecodedRows(scidFile, "scid")
            /\ day_bufs' = <<>>
            /\ total' = 0
            /\ log' = Append(log, Ev("open", "trades", 0, Nothing, <<>>))
            /\ pc' = "trades_loop"
            /\ UNCHANGED disk
    /\ UNCHANGED <<cfg, srcFiles, scidFile, depthDir, locked, contract,
                   depth_map, depth_days, days_todo, run, disk0, disk1, rd,
                   rs, hv,
                   fo, pw, tc, vw>>

\* one record of the loop, with the flush it may trigger
TradeRecord ==
    /\ pc = "trades_loop"
    /\ recs_todo # <<>>
    /\ recs_todo' = Tail(recs_todo)
    /\ LET row == Head(recs_todo)
           d == UtcDate(row.ts)
           bufs == AppendRow(day_bufs, d, row)
       IN  IF ~Accepts(d)
           THEN UNCHANGED <<day_bufs, total, disk, log>>
           ELSE /\ total' = total + 1
                /\ IF FlushDue(bufs)
                   THEN /\ disk' = FlushDisk(disk, bufs)
                        /\ log' = log \o FlushEvents(bufs)
                        /\ day_bufs' = FlushLeft(bufs)
                   ELSE /\ day_bufs' = bufs
                        /\ UNCHANGED <<disk, log>>
    /\ UNCHANGED <<cfg, srcFiles, scidFile, depthDir, locked, pc, contract,
                   depth_map, depth_days, days_todo, run, disk0, disk1, rd,
                   rs, hv,
                   fo, pw, tc, vw>>

\* end of file: the final flush
FinalFlush ==
    /\ pc = "trades_loop"
    /\ recs_todo = <<>>
    /\ disk' = FlushDisk(disk, day_bufs)
    /\ log' = log \o FlushEvents(day_bufs)
    /\ day_bufs' = FlushLeft(day_bufs)
    /\ pc' = PcAfter("trades")
    /\ UNCHANGED <<cfg, srcFiles, scidFile, depthDir, locked, contract,
                   depth_map, depth_days, days_todo, recs_todo, total, run,
                   disk0, disk1, rd, rs, hv,
                   fo, pw, tc, vw>>

\* the caller runs ingest once more on the unchanged input, with overwrite
IngestAgain ==
    /\ pc = "done" /\ run = 1 /\ cfg.overwrite
    /\ run' = 2
    /\ disk1' = disk
    /\ pc' = "resolve"
    /\ contract' = Idle /\ depth_map' = <<>> /\ depth_days' = {}
    /\ days_todo' = <<>> /\ recs_todo' = <<>> /\ day_bufs' = <<>>
    /\ total' = 0 /\ log' = <<>>
    /\ UNCHANGED <<cfg, srcFiles, scidFile, depthDir, locked, disk, disk0,
                   rd, rs, hv,
                   fo, pw, tc, vw>>

Next ==
    \/ ResolveContract \/ IndexDepthDays \/ ApplyDateFilter
    \/ WipeExistingOutput \/ IngestDepthFiles \/ IngestDepthDay
    \/ IngestTradesOpen \/ TradeRecord \/ FinalFlush \/ IngestAgain

(***************************************************************************)
(* The inputs of a run                                                     *)
(***************************************************************************)
ScidName(root, mon, yy) == [root |-> root, mon |-> mon, yy |-> yy, sfx |-> 0]

ThisContract == parse_contract_from_scid_name(ScidName("ES", "U", 25))

StaleRows == <<[ts |-> 0, rec |-> 0]>>

\* an output left by earlier runs: files of this contract and of a sibling
\* month, another year and another root
PopulatedDisk ==
    LET paths ==
            {Path(ThisContract, FirstDay, "trades"),
             Path(ThisContract, FirstDay - 1, "depth"),
             Path(parse_contract_from_scid_name(ScidName("ES", "H", 25)),
                  FirstDay, "trades"),
             Path(parse_contract_from_scid_name(ScidName("ES", "U", 24)),
                  FirstDay, "trades"),
             Path(parse_contract_from_scid_name(ScidName("NQ", "U", 25)),
                  FirstDay, "depth")}
    IN  [p \in paths |-> StaleRows]

DiskChoices ==
    {[disk |-> <<>>, locked |-> {}],
     [disk |-> PopulatedDisk, locked |-> {}],
     [disk |-> PopulatedDisk,
      locked |-> {Path(ThisContract, FirstDay, "trades")}]}

DepthFile(stem, name_day, hdr, recs) ==
    [stem |-> stem, name_day |-> name_day, hdr |-> hdr, recs |-> recs,
     tail |-> 0]

\* a valid one-record depth file named with its day
DatedFile(d) ==
    DepthFile(TRUE, Some(d), GoodHdr("depth"), <<ScTick(d, 0)>>)

DatedListings ==
    {[i \in DOMAIN SortedDays(S) |-> DatedFile(SortedDays(S)[i])] :
        S \in SUBSET Days}

DepthContents ==
    {[hdr |-> GoodHdr("depth"), recs |-> <<ScTick(FirstDay, 0)>>],
     [hdr |-> GoodHdr("depth"), recs |-> <<ScTick(FirstDay + 1, 1)>>],
     [hdr |-> GoodHdr("depth"), recs |-> <<>>],
     [hdr |-> [GoodHdr("depth") EXCEPT !.magic = "JUNK"],
      recs |-> <<ScTick(FirstDay, 0)>>],
     [hdr |-> [GoodHdr("depth") EXCEPT !.len = DEPTH_HDR_MIN], recs |-> <<>>]}

DepthFilePool ==
    {DepthFile(TRUE, nd, c.hdr, c.recs) :
        nd \in {Nothing} \cup {Some(d) : d \in Days}, c \in DepthContents}
    \cup {DepthFile(FALSE, Some(FirstDay), GoodHdr("depth"),
                    <<ScTick(FirstDay, 0)>>)}

\* a source directory (no .scid file named) that has its MarketDepthData
\* child
ExistingSource == [depth_dir |-> TRUE, file |-> Nothing]

InitRunFrom(files, config, scid, listing, out) ==
    /\ cfg = config
    /\ srcFiles = files
    /\ scidFile = scid
    /\ depthDir = listing
    /\ locked = out.locked /\ disk = out.disk /\ disk0 = out.disk
    /\ disk1 = <<>>
    /\ pc = "resolve" /\ run = 1
    /\ contract = Idle /\ depth_map = <<>> /\ depth_days = {}
    /\ days_todo = <<>> /\ recs_todo = <<>> /\ day_bufs = <<>>
    /\ total = 0 /\ log = <<>>
    /\ rd = Idle /\ rs = Idle /\ hv = Idle
    /\ fo = Idle /\ pw = Idle /\ vw = Idle /\ tc = Idle

InitRun(config, scid, listing, out) ==
    InitRunFrom(<<ScidName("ES", "H", 25), ScidName("ES", "U", 25)>>,
                config, scid, listing, out)

\* runs that vary the trade file, the date range, the threshold and the output
InitTrades ==
    \E recs \in SeqsUpTo(TradeTicks, MaxTrades), listing \in DatedListings,
       start \in {Nothing, Some(DateStr(FirstDay + 1))},
       end \in {Nothing, Some(DateStr(FirstDay))},
       ow \in BOOLEAN, fr \in 1..MaxFlushRows, out \in DiskChoices :
        InitRun([symbol |-> "ES", source |-> ExistingSource,
                 start |-> start, end |-> end,
                 overwrite |-> ow, flush_rows |-> fr],
                [hdr |-> GoodHdr("scid"), recs |-> recs, tail |-> 0],
                listing, out)

\* runs that vary the depth directory
InitDepth ==
    \E listing \in SeqsUpTo(DepthFilePool, MaxDepthFiles), ow \in BOOLEAN :
        InitRun([symbol |-> "ES", source |-> ExistingSource,
                 start |-> Nothing, end |-> Nothing,
                 overwrite |-> ow, flush_rows |-> MaxFlushRows],
                [hdr |-> GoodHdr("scid"),
                 recs |-> <<ScTick(FirstDay, 0), ScTick(FirstDay + 1, 0)>>,
                 tail |-> 0],
                listing, [disk |-> <<>>, locked |-> {}])

\* the listings of the source directory: none, a non-quarterly ES month,
\* another root, and the two quarterly ES contracts
SourceListings ==
    {<<>>, <<ScidName("ES", "X", 25)>>, <<ScidName("NQ", "H", 25)>>,
     <<ScidName("ES", "H", 25), ScidName("ES", "U", 25)>>}

\* depth directories: empty, one day, a day followed by a file that is not a
\* depth file, and a day of two records
FaultListings ==
    {<<>>,
     <<DatedFile(FirstDay)>>,
     <<DatedFile(FirstDay),
       DepthFile(TRUE, Some(FirstDay + 1),
                 [GoodHdr("depth") EXCEPT !.magic = "JUNK"], <<>>)>>,
     <<DepthFile(TRUE, Some(FirstDay), GoodHdr("depth"),
                 <<ScTick(FirstDay, 0), ScTick(FirstDay, 1)>>)>>}

DateTexts(d) == {Nothing, Some(DateStr(d)), Some(BadDateStr)}

\* runs on inputs the run must reject or survive: no candidate contract, no
\* depth directory, bounds that do not parse or are inverted, a trade file
\* with a foreign header
InitFaults ==
    \E files \in SourceListings, dir \in BOOLEAN, listing \in FaultListings,
       start \in DateTexts(FirstDay + 1), end \in DateTexts(FirstDay),
       magic \in {SCID_MAGIC, "JUNK"}, ow \in BOOLEAN :
        /\ ~dir => listing = <<>>
        /\ InitRunFrom(files,
                       [symbol |-> "ES", source |-> [depth_dir |-> dir, file |-> Nothing],
                        start |-> start, end |-> end,
                        overwrite |-> ow, flush_rows |-> 1],
                       [hdr |-> [GoodHdr("scid") EXCEPT !.magic = magic],
                        recs |-> <<ScTick(FirstDay, 0), ScTick(FirstDay, 1)>>,
                        tail |-> 0],
                       listing, [disk |-> PopulatedDisk, locked |-> {}])

\* flush_rows of an IngestConfig that does not set it
FLUSH_ROWS_DEFAULT == 500000

\* the three ticks of the test: two in the last half of 2025-08-26 and one
\* in the first half of 2025-08-27
TestTicks ==
    <<ScTick(FirstDay, 1), ScTick(FirstDay, 1), ScTick(FirstDay + 1, 0)>>

\* runs whose source is a .scid file: the test's ESU25, a file of a month
\* that is not quarterly and a file whose name is no contract name, beside
\* a later contract in the same directory
InitFile ==
    \E mon \in {"U", "X", "A"}, sym \in {"ES", "NQ"}, dir \in BOOLEAN,
       listing \in DatedListings, ow \in BOOLEAN,
       out \in {[disk |-> <<>>, locked |-> {}],
                [disk |-> PopulatedDisk, locked |-> {}]} :
        /\ ~dir => listing = <<>>
        /\ InitRunFrom(<<ScidName("ES", "U", 25), ScidName("ES", "Z", 25)>>,
                       [symbol |-> sym,
                        source |-> [depth_dir |-> dir,
                                    file |-> Some(ScidName("ES", mon, 25))],
                        start |-> Nothing, end |-> Nothing,
                        overwrite |-> ow, flush_rows |-> FLUSH_ROWS_DEFAULT],
                       [hdr |-> GoodHdr("scid"), recs |-> TestTicks,
                        tail |-> 0],
                       listing, out)

Init == InitTrades \/ InitDepth \/ InitFaults \/ InitFile

Spec == Init /\ [][Next]_vars

(***************************************************************************)
(* ParquetWriter.write and the read back of its destination.  A table is   *)
(* its column names and its rows (functions from column name to value); a  *)
(* destination is the list of the parquet files under it, each with the    *)
(* col=value directories above it.  The pyarrow calls are modelled by what *)
(* their documentation says: write_table replaces the file;                *)
(* write_to_dataset adds one new, uniquely named file to the directory of  *)
(* each combination of values of the partition columns, without those      *)
(* columns; a read returns the rows of all files, the partition columns    *)
(* restored from the directory names and placed last.                      *)
(***************************************************************************)
MaxRows == 2

MaxWrites == 2

TableCols == <<"date", "symbol", "price">>

TableRow(d, s, p) ==
    [c \in Range(TableCols) |->
        IF c = "date" THEN d ELSE IF c = "symbol" THEN s ELSE p]

\* the rows of the test's table: 2025-08-27 ES and NQ, 2025-08-28 ES
RowPool ==
    {TableRow(FirstDay + 1, "ES", 1), TableRow(FirstDay + 1, "NQ", 2),
     TableRow(FirstDay + 2, "ES", 3)}

Tables ==
    {[cols |-> TableCols, rows |-> r] :
        r \in SeqsUpTo(RowPool, MaxRows) \ {<<>>}}

\* the directories col=value of a row, in the order of the columns of by
PartitionDir(row, by) == [i \in DOMAIN by |-> [col |-> by[i], val |-> row[by[i]]]]

\* the row without the columns of by
FileRow(row, by) == [c \in (DOMAIN row) \ Range(by) |-> row[c]]

RECURSIVE PartitionDirs(_, _)
\* the distinct directories of the rows, in order of first appearance
PartitionDirs(rows, by) ==
    IF rows = <<>> THEN <<>>
    ELSE LET d == PartitionDir(Head(rows), by)
         IN  <<d>> \o PartitionDirs(
                 SelectSeq(Tail(rows), LAMBDA r : PartitionDir(r, by) # d), by)

\* the files one call of pq.write_to_dataset creates
DatasetFiles(tbl, by) ==
    LET dirs == PartitionDirs(tbl.rows, by)
    IN  [i \in DOMAIN dirs |->
            LET own == SelectSeq(tbl.rows,
                                 LAMBDA r : PartitionDir(r, by) = dirs[i])
            IN  [dir |-> dirs[i],
                 cols |-> SelectSeq(tbl.cols, LAMBDA c : c \notin Range(by)),
                 rows |-> [j \in DOMAIN own |-> FileRow(own[j], by)]]]

\* a variant of write_to_dataset that clears the destination first
write_to_dataset_replace(dest, tbl, by) == DatasetFiles(tbl, by)

\* pq.write_to_dataset(tbl, root_path, partition_cols=by)
write_to_dataset(dest, tbl, by) == dest \o DatasetFiles(tbl, by)

\* pq.write_table(tbl, path) of the writer: one file, replaced
pq_write_table(dest, tbl) ==
    <<[dir |-> <<>>, cols |-> tbl.cols, rows |-> tbl.rows]>>

\* the destination a call of ParquetWriter.write leaves
Written(dest) == [error |-> None, dest |-> dest]

\* ValueError('partitioning must include a non-empty "by" list')
BadPartitioning(dest) == [error |-> "ValueError", dest |-> dest]

\* ParquetWriter.write; partitioning is Nothing or Some(the list of "by")
ParquetWriter_write(dest, tbl, partitioning) ==
    IF partitioning # Nothing
    THEN IF The(partitioning) = <<>> THEN BadPartitioning(dest)
         ELSE Written(write_to_dataset(dest, tbl, The(partitioning)))
    ELSE Written(pq_write_table(dest, tbl))

\* the row of a file with the columns of its directories restored
ReadRow(file, j) ==
    [c \in (DOMAIN file.rows[j]) \cup {file.dir[i].col : i \in DOMAIN file.dir} |->
        IF c \in DOMAIN file.rows[j] THEN file.rows[j][c]
        ELSE file.dir[CHOOSE i \in DOMAIN file.dir : file.dir[i].col = c].val]

RECURSIVE ReadRows(_)
ReadRows(dest) ==
    IF dest = <<>> THEN <<>>
    ELSE [j \in DOMAIN Head(dest).rows |-> ReadRow(Head(dest), j)]
         \o ReadRows(Tail(dest))

\* pq.read_table(path) or pq.ParquetDataset(root).read() of the tests, on
\* a destination that holds a file
read_back(dest) ==
    [cols |-> dest[1].cols \o [i \in DOMAIN dest[1].dir |-> dest[1].dir[i].col],
     rows |-> ReadRows(dest)]

InitWriter ==
    /\ IngestIdle /\ rd = Idle /\ rs = Idle /\ hv = Idle /\ fo = Idle
    /\ tc = Idle /\ vw = Idle
    /\ \E partitioning \in {Nothing, Some(<<>>), Some(<<"date">>),
                             Some(<<"date", "symbol">>)} :
          pw = [partitioning |-> partitioning, dest |-> <<>>,
                table |-> Nothing, history |-> <<>>, writes |-> 0,
                back |-> Nothing, state |-> "ready"]

\* ParquetWriter().write(tbl, path, partitioning), on a new destination or
\* on the one an earlier call wrote
WriterWrite ==
    /\ pw.state \in {"ready", "read"} /\ pw.writes < MaxWrites
    /\ \E tbl \in Tables :
          LET out == ParquetWriter_write(pw.dest, tbl, pw.partitioning)
          IN  IF out.error # None
              THEN pw' = [pw EXCEPT !.state = "raised"]
              ELSE pw' = [pw EXCEPT !.dest = out.dest, !.table = Some(tbl),
                                    !.history = @ \o tbl.rows,
                                    !.writes = @ + 1, !.back = Nothing,
                                    !.state = "written"]
    /\ UNCHANGED <<ingestVars, rd, rs, hv, fo, tc, vw>>

WriterRead ==
    /\ pw.state = "written"
    /\ pw' = [pw EXCEPT !.back = Some(read_back(pw.dest)), !.state = "read"]
    /\ UNCHANGED <<ingestVars, rd, rs, hv, fo, tc, vw>>

NextWriter == WriterWrite \/ WriterRead

SpecWriter == InitWriter /\ [][NextWriter]_vars

(***************************************************************************)
(* SpecViewer: the replay of one ViewerApp.  started tells whether start() *)
(* has created the timer, the curve and the window; r_ts is the loaded     *)
(* replay data, as its number of rows; timer_active is the state of the    *)
(* QTimer; status is the last message of the status bar.                   *)
(***************************************************************************)
MaxReplayBlocks == 3

\* self._r_step: points per tick
R_STEP == 200

\* the row counts of the tables that are replayed
ReplayRows ==
    {k * R_STEP + r : k \in 0..MaxReplayBlocks, r \in {0, 1, R_STEP \div 2, R_STEP - 1}}

\* a variant of TickEnd that does not stop at the end of the data
TickEndUnclamped(idx, step, n) == idx + step

\* end = min(self._r_idx + self._r_step, n)
TickEnd(idx, step, n) == Min(idx + step, n)

\* ViewerApp.__init__
InitViewer ==
    /\ IngestIdle /\ rd = Idle /\ rs = Idle /\ hv = Idle /\ fo = Idle
    /\ pw = Idle /\ tc = Idle
    /\ vw = [started |-> FALSE, timer_active |-> FALSE, r_ts |-> Nothing,
             r_idx |-> 0, r_step |-> R_STEP, r_running |-> FALSE,
             status |-> "none"]

\* start(), up to the event loop: the window, the curve and the timer exist
ViewerStart ==
    /\ ~vw.started
    /\ vw' = [vw EXCEPT !.started = TRUE, !.status = "Ready"]
    /\ UNCHANGED <<ingestVars, rd, rs, hv, fo, pw, tc>>

\* the state after _on_play_pause is called in state v
on_play_pause(v) ==
    IF ~v.started THEN v
    ELSE IF v.r_ts = Nothing THEN [v EXCEPT !.status = "No replay loaded"]
    ELSE IF v.r_running
    THEN [v EXCEPT !.timer_active = FALSE, !.r_running = FALSE,
                   !.status = "Paused"]
    ELSE [v EXCEPT !.timer_active = TRUE, !.r_running = TRUE,
                   !.status = "Playing"]

\* the state after _on_stop is called in state v
on_stop(v) ==
    [v EXCEPT !.timer_active = FALSE, !.r_running = FALSE, !.r_ts = Nothing,
              !.r_idx = 0,
              !.status = IF v.started THEN "Stopped" ELSE v.status]

\* the state after _on_tick is called in state v
on_tick(v) ==
    IF ~v.r_running \/ v.r_ts = Nothing \/ ~v.started THEN v
    ELSE IF v.r_idx >= The(v.r_ts)
    THEN [on_stop(v) EXCEPT !.status = "Replay finished"]
    ELSE [v EXCEPT !.r_idx = TickEnd(v.r_idx, v.r_step, The(v.r_ts))]

\* the state after _start_replay_from_table is called in state v with a
\* table of n rows and numeric_cols numeric columns, none named ts or price
start_replay_from_table(v, n, numeric_cols) ==
    IF numeric_cols < 2 THEN v
    ELSE on_play_pause(
             [v EXCEPT !.timer_active = FALSE, !.r_ts = Some(n), !.r_idx = 0,
                       !.r_running = FALSE,
                       !.status = IF v.started THEN "Replay loaded"
                                  ELSE v.status])

\* Replay Parquet... or Replay Demo
ViewerLoadReplay ==
    /\ \E n \in ReplayRows, numeric_cols \in {1, 2} :
          vw' = start_replay_from_table(vw, n, numeric_cols)
    /\ UNCHANGED <<ingestVars, rd, rs, hv, fo, pw, tc>>

\* Play / Pause
ViewerPlayPause ==
    /\ vw' = on_play_pause(vw)
    /\ UNCHANGED <<ingestVars, rd, rs, hv, fo, pw, tc>>

\* Stop
ViewerStop ==
    /\ vw' = on_stop(vw)
    /\ UNCHANGED <<ingestVars, rd, rs, hv, fo, pw, tc>>

\* a timeout of the timer is delivered; _on_tick itself checks whether the
\* replay is running
ViewerTick ==
    /\ vw.started
    /\ vw' = on_tick(vw)
    /\ UNCHANGED <<ingestVars, rd, rs, hv, fo, pw, tc>>

NextViewer ==
    \/ ViewerStart \/ ViewerLoadReplay \/ ViewerPlayPause \/ ViewerStop
    \/ ViewerTick

SpecViewer == InitViewer /\ [][NextViewer]_vars

(***************************************************************************)
(* Properties                                                              *)
(***************************************************************************)
\* the day of the i-th record of the trade file
TradeDay(i) == UtcDate(sc_us_to_unix_us(scidFile.recs[i]))

\* d has a depth file of the contract in the depth directory
HasDepthFile(d) ==
    \E i \in DOMAIN depthDir : depthDir[i].stem /\ d \in FileDay(depthDir[i])

InDateRange(d) ==
    /\ \A s \in cfg.start : d >= fromisoformat(s)
    /\ \A e \in cfg.end : d <= fromisoformat(e)

\* d is in the allowed-day set
AllowedDay(d) == HasDepthFile(d) /\ InDateRange(d)

IsWrite(e, kind) == e.op = "write" /\ e.kind = kind

TradeWrites == {k \in DOMAIN log : IsWrite(log[k], "trades")}

DepthWrites == {k \in DOMAIN log : IsWrite(log[k], "depth")}

\* p is under out_root/<root>/<yy>/<month> of the resolved contract
InContractTree(p) ==
    p.root = contract.root /\ p.yy = contract.yy /\ p.mon = contract.mon

AcceptedRecs == {i \in DOMAIN scidFile.recs : AllowedDay(TradeDay(i))}

TradeParts == {p \in DOMAIN disk : InContractTree(p) /\ p.kind = "trades"}

\* the places (partition, row index) where source record i is stored
StoredAt(i) ==
    {pj \in UNION {{<<p, j>> : j \in DOMAIN disk[p]} : p \in TradeParts} :
        disk[pj[1]][pj[2]].rec = i}

RECURSIVE RowCount(_)
RowCount(parts) ==
    IF parts = {} THEN 0
    ELSE LET p == CHOOSE q \in parts : TRUE
         IN  Len(disk[p]) + RowCount(parts \ {p})

\* C2: when a first run that started from an empty output for the contract
\* completes, the trade partitions on disk hold as many rows as there are
\* source records of an allowed day within the date range, and each such
\* record is stored exactly once.
C2_RowConservation ==
    (/\ pc = "done" /\ run = 1
     /\ \A p \in DOMAIN disk0 : ~(p.root = contract.root /\ p.yy = contract.yy
                                  /\ p.mon = contract.mon))
    => /\ RowCount(TradeParts) = Cardinality(AcceptedRecs)
       /\ \A i \in AcceptedRecs : Cardinality(StoredAt(i)) = 1

\* the rows accepted for day d, in source order
AcceptedRows(d) ==
    LET all == [i \in DOMAIN scidFile.recs |->
                   [ts |-> sc_us_to_unix_us(scidFile.recs[i]), rec |-> i]]
    IN  SelectSeq(all, LAMBDA r : UtcDate(r.ts) = d /\ AllowedDay(d))

\* C3: within one run the trade partition of a day is written at most once,
\* and when the run completes it holds all rows accepted for that day.
C3_OneWritePerDay ==
    /\ \A k1, k2 \in TradeWrites : log[k1].day = log[k2].day => k1 = k2
    /\ pc = "done" =>
          \A k \in TradeWrites :
              disk[Path(contract, log[k].day, "trades")] = AcceptedRows(log[k].day)

\* the records at the consecutive record-size units of data_len bytes
ConsecutiveRecords(data_len, rec_size) ==
    [k \in 1..(data_len \div rec_size) |-> (k - 1) * rec_size]

\* C4: for any block size, the records decoded from a trade or depth file are
\* those at the consecutive record-size units of the bytes after the header.
C4_BlockSizeIndependent ==
    rd.state = "eof" => rd.out = ConsecutiveRecords(rd.data_len, RecSize(rd.fmt))

IsTradeIO(e) == e.kind = "trades" /\ e.op \in {"open", "write"}

IsDepthIO(e) == e.kind = "depth" /\ e.op \in {"open", "write"}

\* C5: once the trade file is opened or a trade partition is written, the
\* depth partition of every allowed day has been written and no depth file
\* is opened or written any more.
C5_TradesAfterDepth ==
    \A k \in DOMAIN log :
        IsTradeIO(log[k]) =>
            /\ \A j \in DOMAIN log : j > k => ~IsDepthIO(log[j])
            /\ \A d \in depth_days :
                  \E j \in DepthWrites : j < k /\ log[j].day = d

\* a completed run that wrote depth partitions and trade partitions
C5_Witness == pc = "done" /\ DepthWrites # {} /\ TradeWrites # {}

\* C6: the wipe step is reached only with overwrite set, and it leaves every
\* output file outside out_root/<root>/<yy>/<month> of the resolved contract
\* as it was and creates none.
C6_WipeFrame ==
    [][pc = "wipe" =>
          /\ cfg.overwrite
          /\ DOMAIN disk' \subseteq DOMAIN disk
          /\ \A p \in DOMAIN disk :
                ~InContractTree(p) => p \in DOMAIN disk' /\ disk'[p] = disk[p]]_vars

\* the wipe has just removed files while files of other contracts exist
C6_Witness ==
    /\ log # <<>>
    /\ log[Len(log)].op = "wipe"
    /\ log[Len(log)].rows # {}
    /\ \E p \in DOMAIN disk : ~InContractTree(p)

\* C7: after a second run with overwrite on the unchanged input, the output
\* is the output the first run left.
C7_IdempotentOverwrite == (run = 2 /\ pc = "done") => disk = disk1

\* a completed second run that wrote depth and trade partitions, one of them
\* onto a file the wipe could not remove
C7_Witness ==
    /\ run = 2 /\ pc = "done" /\ DepthWrites # {}
    /\ \E k \in TradeWrites : Path(contract, log[k].day, "trades") \in locked

\* the candidates resolution may select for the requested root
Eligible(f, root) ==
    /\ f.root = root
    /\ \E i \in DOMAIN MONTH_CODES : MONTH_CODES[i] = f.mon
    /\ root = "ES" => f.mon \in {"H", "M", "U", "Z"}

MonthRank(m) == CHOOSE i \in DOMAIN MONTH_CODES : MONTH_CODES[i] = m

\* C8: resolution returns an eligible candidate (requested root, and for ES a
\* month code among H, M, U, Z) whose (year, month rank) no eligible candidate
\* exceeds.
C8_LatestContract ==
    rs.state = "returned" =>
        LET elig == {f \in Range(rs.files) : Eligible(f, rs.root)}
        IN  elig # {} =>
               /\ rs.result \in elig
               /\ \A f \in elig :
                     \/ f.yy < rs.result.yy
                     \/ /\ f.yy = rs.result.yy
                        /\ MonthRank(f.mon) <= MonthRank(rs.result.mon)

\* ES: U25 is selected among H25 and U25
C8_Witness ==
    /\ rs.state = "returned" /\ rs.root = "ES"
    /\ \E i, j \in DOMAIN rs.files :
          /\ rs.files[i].root = "ES" /\ rs.files[i].mon = "H" /\ rs.files[i].yy = 25
          /\ rs.files[j].root = "ES" /\ rs.files[j].mon = "U" /\ rs.files[j].yy = 25
    /\ rs.result.mon = "U"

Validate(fmt, hdr) ==
    IF fmt = "scid" THEN read_scid_header(hdr) ELSE read_depth_header(hdr)

\* C9: a header is accepted exactly when all its bytes were read, the magic
\* matches and the declared header and record sizes are the format's; a
\* shorter header is rejected for its length; the version changes nothing.
C9_HeaderValidation ==
    hv.result # None =>
        LET h == hv.hdr
            full == IF hv.fmt = "scid" THEN 56 ELSE 64
            rec == IF hv.fmt = "scid" THEN 40 ELSE 24
            magic == IF hv.fmt = "scid" THEN "SCID" ELSE "SCDD"
        IN  /\ hv.result = "ok" <=>
                  /\ h.len = full /\ h.magic = magic
                  /\ h.hdr_size = full /\ h.rec_size = rec
            /\ h.len < full => hv.result \in {"too_short", "struct_error"}
            /\ \A v \in {0, 1, 2} :
                  Validate(hv.fmt, [h EXCEPT !.version = v]) = hv.result

\* a full header of a version other than 1 was accepted
C9_Witness == hv.result = "ok" /\ hv.hdr.version # 1

\* the header of f fails validation, or f holds no record
BadDepthFile(f) ==
    \/ f.hdr.len # 64 \/ f.hdr.magic # "SCDD"
    \/ f.hdr.hdr_size # 64 \/ f.hdr.rec_size # 24
    \/ Len(f.recs) = 0

\* C10: a candidate depth file that fails header validation or holds no record
\* is not in the depth-day index, gets no partition and raises no error.
C10_BadDepthFilesSkipped ==
    pc \notin {"idle", "resolve", "discover"} =>
        \A i \in DOMAIN depthDir :
            (depthDir[i].stem /\ BadDepthFile(depthDir[i])) =>
                /\ \A d \in DOMAIN depth_map : depth_map[d] # i
                /\ \A k \in DOMAIN log :
                      ~(log[k].kind = "depth" /\ log[k].file = i)

\* C11: every trade or depth partition a run writes holds at least one row;
\* a day for which no row was decoded gets no output file.
C11_NoEmptyPartition ==
    \A k \in TradeWrites \cup DepthWrites : log[k].rows # <<>>

\* the calendar day of a converted timestamp
DayOfTs(ts) == ts \div TicksPerDay

\* the rows of the k-th log entry all carry the day of the entry
RowsInOwnDay(k) ==
    \A j \in DOMAIN log[k].rows : DayOfTs(log[k].rows[j].ts) = log[k].day

\* C12 as stated: every row written to the partition of day D, trades and
\* depth alike, has a converted timestamp whose UTC date is D.
C12_RowsInOwnDay == \A k \in TradeWrites \cup DepthWrites : RowsInOwnDay(k)

\* C12: every row written to the trade partition of day D has a converted
\* timestamp whose UTC date is D; the depth partition of day D holds every
\* record of the depth file indexed under D, whatever the date of its
\* timestamp.
C12_TradeRowsInOwnDay ==
    /\ \A k \in TradeWrites : RowsInOwnDay(k)
    /\ \A k \in DepthWrites :
          LET recs == depthDir[log[k].file].recs
          IN  /\ Len(log[k].rows) = Len(recs)
              /\ \A j \in DOMAIN recs :
                    log[k].rows[j].ts = recs[j] - SC_EPOCH_DAYS * TicksPerDay

\* a completed run that wrote trade partitions and a depth partition with a
\* row of another day than the partition's
C12_Witness ==
    /\ pc = "done" /\ TradeWrites # {}
    /\ \E k \in DepthWrites : ~RowsInOwnDay(k)

\* a bound does not parse, or start is later than end
BadRange ==
    \/ \E s \in cfg.start \cup cfg.end : ~s.iso
    \/ \E s \in cfg.start, e \in cfg.end : s.iso /\ e.iso /\ s.day > e.day

\* C13: when the start or end date does not parse, or start is later than
\* end, the run fails with an error before any filesystem read, deletion or
\* write: no contract is resolved, no depth day is indexed and the output is
\* left as it was.
C13_BadRangeRejectedFirst ==
    BadRange =>
        /\ pc \in {"resolve", "failed"}
        /\ contract = Idle /\ depth_map = <<>>
        /\ disk = disk0
        /\ pc = "failed" => log = <<Raise("range", 0)>>

NoEligible ==
    \A i \in DOMAIN srcFiles : ~Eligible(srcFiles[i], cfg.symbol)

\* C15: when the source is a directory and none of its files matches the
\* requested root after month-code filtering, resolution fails with the
\* no-candidates error and the run stops there: no depth day is indexed,
\* nothing is wiped or written.
C15_NoCandidatesAborts ==
    (cfg.source.file = {} /\ NoEligible) =>
        /\ pc \in {"resolve", "failed"}
        /\ pc = "failed" => log = <<Raise("resolve", 0)>>
        /\ contract = Idle /\ depth_map = <<>> /\ depth_days = {}
        /\ disk = disk0

\* the run failed on a directory whose only file of the root has a month
\* code outside the quarterly ones, with existing output and overwrite set
C15_Witness ==
    /\ pc = "failed" /\ cfg.overwrite /\ DOMAIN disk # {}
    /\ srcFiles # <<>>
    /\ \A i \in DOMAIN srcFiles :
          srcFiles[i].root = cfg.symbol /\ srcFiles[i].mon = "X"

\* every partition the log says was written is on disk with those rows
WrittenPartitionsKept(lg, dk) ==
    \A k \in DOMAIN lg :
        lg[k].op = "write" =>
            LET p == [root |-> contract.root, yy |-> contract.yy,
                      mon |-> contract.mon, day |-> lg[k].day,
                      kind |-> lg[k].kind]
            IN  p \in DOMAIN dk /\ dk[p] = lg[k].rows

\* C16: when a run aborts on an error during depth or trade ingestion, the
\* failing step removes and changes no output file, every partition written
\* before is on disk with the rows it was written with, and no step of the
\* run follows the failure.
C16_AbortKeepsWritten ==
    [][/\ pc # "failed"
       /\ (pc' = "failed" /\ pc \in {"depth_loop", "trades"}) =>
              /\ disk' = disk
              /\ WrittenPartitionsKept(log', disk')]_vars

\* the run failed on a depth file after it wrote the depth partition of an
\* earlier day
C16_Witness ==
    /\ pc = "failed" /\ DepthWrites # {}
    /\ log[Len(log)] = Raise("depth", 2)

\* C17 as stated: at every point of a run the decoded rows held in memory
\* and not yet written are at most flush_rows, in depth ingestion as in
\* trade ingestion; the rows of a write were all held when it was made.
C17_HeldRowsBounded ==
    /\ BufferedRows(day_bufs) <= cfg.flush_rows
    /\ \A k \in TradeWrites \cup DepthWrites :
          Len(log[k].rows) <= cfg.flush_rows

\* C17: during trade ingestion fewer than flush_rows rows are held between
\* two records, so at most flush_rows rows are held when a row is added, and
\* no trade write holds more; depth ingestion holds all the rows of a depth
\* file until it writes them, whatever flush_rows is.
C17_TradeRowsBounded ==
    /\ BufferedRows(day_bufs) < cfg.flush_rows
    /\ \A k \in TradeWrites : Len(log[k].rows) <= cfg.flush_rows
    /\ \A k \in DepthWrites :
          Len(log[k].rows) = Len(depthDir[log[k].file].recs)

\* a completed run that wrote trade partitions and a depth partition of more
\* rows than flush_rows
C17_Witness ==
    /\ pc = "done" /\ TradeWrites # {}
    /\ \E k \in DepthWrites : Len(log[k].rows) > cfg.flush_rows

\* C18: an entry the wipe cannot delete does not abort the run: the step
\* removes every other file under the contract's output tree, leaves the
\* undeletable one, raises nothing and hands over to depth ingestion.
C18_WipeToleratesFailure ==
    [][pc = "wipe" =>
          /\ pc' = "depth"
          /\ \A k \in DOMAIN log' : log'[k].op # "raise"
          /\ \A p \in DOMAIN disk :
                InContractTree(p) => (p \in DOMAIN disk' <=> p \in locked)]_vars

\* past a wipe that removed a file and left one it could not delete
C18_Witness ==
    /\ pc \in {"depth", "depth_loop", "trades", "trades_loop", "done"}
    /\ \E k \in DOMAIN log : log[k].op = "wipe" /\ log[k].rows # {}
    /\ \E p \in locked : p \in DOMAIN disk /\ InContractTree(p)

\* the days of the depth-day index within the inclusive bounds that are given
IndexedDaysInRange ==
    {d \in DOMAIN depth_map :
        /\ \A s \in cfg.start : s.day <= d
        /\ \A e \in cfg.end : d <= e.day}

NamedOrFirstRecordDay(f) ==
    IF f.name_day # {} THEN f.name_day
    ELSE IF BadDepthFile(f) THEN {}
    ELSE {DayOfTs(f.recs[1] - SC_EPOCH_DAYS * TicksPerDay)}

\* C20: once the depth directory is indexed, every entry of the index maps
\* a day to a file whose name holds the stem and whose day it is (the date
\* in the name, else the UTC date of the first record read after the header
\* check); the day of every such file is in the index; a file whose name
\* does not hold the stem is in no entry.
C20_FileDays ==
    (pc \notin {"resolve", "discover"} /\ contract # Idle) =>
        /\ \A d \in DOMAIN depth_map :
              LET f == depthDir[depth_map[d]]
              IN  f.stem /\ d \in NamedOrFirstRecordDay(f)
        /\ \A i \in DOMAIN depthDir :
              IF depthDir[i].stem
              THEN NamedOrFirstRecordDay(depthDir[i]) \subseteq DOMAIN depth_map
              ELSE \A d \in DOMAIN depth_map : depth_map[d] # i

\* the index holds a file under the date of its name although its first
\* record is of another day, and a file without a date in its name under
\* the day of its first record
C20_Witness ==
    /\ pc \notin {"resolve", "discover"}
    /\ \E d \in DOMAIN depth_map :
          LET f == depthDir[depth_map[d]]
          IN  /\ f.name_day = {d} /\ f.recs # <<>>
              /\ DayOfTs(f.recs[1] - SC_EPOCH_DAYS * TicksPerDay) # d
    /\ \E d \in DOMAIN depth_map : depthDir[depth_map[d]].name_day = {}

\* the files of the listing that carry the stem and map to day d
CandidatesOfDay(d) ==
    {i \in DOMAIN depthDir :
        depthDir[i].stem /\ d \in NamedOrFirstRecordDay(depthDir[i])}

\* C21: the depth-day index holds one file per day; when several candidate
\* files map to a day its entry is the last of them in listing order, and
\* depth ingestion opens and writes only that file for the day.
C21_LastFileWins ==
    (pc \notin {"resolve", "discover"} /\ contract # Idle) =>
        /\ \A d \in DOMAIN depth_map :
              /\ depth_map[d] \in CandidatesOfDay(d)
              /\ \A i \in CandidatesOfDay(d) : i <= depth_map[d]
        /\ \A k \in DOMAIN log :
              (log[k].kind = "depth" /\ log[k].op \in {"open", "write"}) =>
                  \A d \in (IF log[k].op = "open" THEN log[k].day
                             ELSE {log[k].day}) :
                      log[k].file = depth_map[d]

\* two files of the listing map to one day and the run wrote the day's
\* depth partition from the second
C21_Witness ==
    /\ pc = "done"
    /\ \E d \in DOMAIN depth_map :
          /\ Cardinality(CandidatesOfDay(d)) = 2
          /\ \E k \in DepthWrites : log[k].day = d /\ log[k].file = 2

\* the header of the opened file is whole and carries the format's values
GoodOpenHeader ==
    LET h == fo.file.hdr
    IN  IF fo.fmt = "scid"
        THEN h.len = 56 /\ h.magic = "SCID" /\ h.hdr_size = 56 /\ h.rec_size = 40
        ELSE h.len = 64 /\ h.magic = "SCDD" /\ h.hdr_size = 64 /\ h.rec_size = 24

\* C22: whichever way a file is opened for decoding (trade file, depth file
\* of a day, peeked depth file), its header is validated exactly once and
\* before any record is decoded; records are decoded only after the header
\* was accepted, the first at offset 56 (trades) or 64 (depth) and each next
\* one a record size further, and a file with a good header is decoded.
C22_HeaderOnceFirst ==
    LET first == IF fo.fmt = "scid" THEN 56 ELSE 64
        rec == IF fo.fmt = "scid" THEN 40 ELSE 24
    IN  /\ fo.validated = (IF fo.state = "opened" THEN 0 ELSE 1)
        /\ fo.state = "opened" => fo.decoded = <<>>
        /\ fo.decoded # <<>> => fo.result = "ok"
        /\ \A k \in DOMAIN fo.decoded : fo.decoded[k] = first + (k - 1) * rec
        /\ (GoodOpenHeader /\ fo.state # "opened") => fo.result = "ok"
        /\ (GoodOpenHeader /\ fo.state = "closed") =>
              Len(fo.decoded) = IF fo.site = "peek" THEN Min(1, fo.file.nrecs)
                                ELSE fo.file.nrecs

\* a trade file with a good header was read to its end and its two records
\* were decoded
C22_Witness ==
    /\ fo.site = "trades" /\ fo.state = "closed" /\ fo.validated = 1
    /\ fo.decoded = <<56, 96>>

\* C23: the conversion subtracts one constant from every tick, the time
\* from 1899-12-30T00:00:00Z to 1970-01-01T00:00:00Z: 25569 days, which is
\* 25569 * 86400 * 10^6 = 22091616 * 10^8 = 2209161600000000 microseconds;
\* tick 0 maps to 1899-12-30T00:00:00Z, and a Unix time turned into a tick
\* by adding the constant converts back to itself.
C23_ConstantOffset ==
    /\ DaysFromCivil(1970, 1, 1) = 0
    /\ DaysFromCivil(1899, 12, 30) = 0 - 25569
    /\ 25569 * 864 = 22091616
    /\ \A u \in tc.unix_us :
          /\ \A t \in tc.sc_us : u = t - 25569 * TicksPerDay
          /\ tc.from = "tick" /\ tc.x = 0 =>
                u = DaysFromCivil(1899, 12, 30) * TicksPerDay
          /\ tc.from = "unix" => u = tc.x

\* a Unix time before 1970 went to a tick and back
C23_Witness ==
    /\ tc.from = "unix" /\ tc.x < 0
    /\ tc.unix_us = {tc.x} /\ tc.sc_us = {tc.x + 51138}

\* the number of rows of the trade partitions the run wrote
WrittenTradeRows ==
    LET RECURSIVE Sum(_)
        Sum(k) == IF k = 0 THEN 0
                  ELSE (IF IsWrite(log[k], "trades") THEN Len(log[k].rows)
                        ELSE 0) + Sum(k - 1)
    IN  Sum(Len(log))

\* the UTC days of the records of the trade file
SourceDays ==
    {DayOfTs(scidFile.recs[i] - SC_EPOCH_DAYS * TicksPerDay) :
        i \in DOMAIN scidFile.recs}

\* C24: a completed run on a valid .scid file given as the source, with
\* overwrite set and no depth file present, has written one trade partition
\* for each of the K UTC days of the file's records, keyed by symbol and
\* date alone (out_root/trades/symbol=<symbol>/date=<day>), and the
\* partitions hold as many rows as the file has records.
C24_FileSourceTradesWritten ==
    (/\ cfg.source.file # {} /\ cfg.overwrite /\ depthDir = <<>>
     /\ pc = "done" /\ run = 1)
    => /\ Cardinality({log[k].day : k \in TradeWrites})
             = Cardinality(SourceDays)
       /\ WrittenTradeRows = Len(scidFile.recs)
       /\ \A k \in TradeWrites :
             DOMAIN Path(contract, log[k].day, "trades")
                 = {"kind", "symbol", "day"}

SameCount(s, t, r) ==
    Cardinality({i \in DOMAIN s : s[i] = r})
        = Cardinality({i \in DOMAIN t : t[i] = r})

\* s and t hold the same rows, each as many times
SameRows(s, t) ==
    /\ Len(s) = Len(t)
    /\ \A i \in DOMAIN s : SameCount(s, t, s[i])

C26_TrailingPartialDropped ==
    (/\ rd.state = "eof"
     /\ rd.block_sz % RecSize(rd.fmt) = 0
     /\ rd.data_len % RecSize(rd.fmt) # 0)
    => /\ Len(rd.out) = rd.data_len \div RecSize(rd.fmt)
       /\ \A k \in DOMAIN rd.out : rd.out[k] = (k - 1) * RecSize(rd.fmt)

\* a file of complete records and a cut-off one was read to its end in
\* blocks of two records, and a record was decoded from the last block
C26_Witness ==
    /\ rd.state = "eof" /\ rd.block_sz = 2 * RecSize(rd.fmt)
    /\ rd.data_len % RecSize(rd.fmt) # 0
    /\ rd.data_len > RecSize(rd.fmt)
    /\ rd.data_len < rd.block_sz

\* the output path of the partition a write event of this run wrote
WrittenPath(e) == Path(contract, e.day, e.kind)

\* C28: the wipe of a run comes before every partition write of that run,
\* and so removes none of them: in the log of a run no write precedes the
\* wipe, and every partition the run has written is in the output.
C28_WipeBeforeWrites ==
    /\ \A w \in DOMAIN log :
           log[w].op = "wipe" => \A k \in 1..(w - 1) : log[k].op # "write"
    /\ \A k \in DOMAIN log :
           log[k].op = "write" => WrittenPath(log[k]) \in DOMAIN disk

\* a second run with overwrite completed: its wipe removed a partition of
\* the first run, and the run then wrote that partition again
C28_Witness ==
    /\ run = 2 /\ pc = "done" /\ cfg.overwrite
    /\ \E w \in DOMAIN log, k \in DOMAIN log :
           /\ log[w].op = "wipe" /\ log[k].op = "write" /\ w < k
           /\ WrittenPath(log[k]) \in log[w].rows

\* the days of the partitions of one kind this run has written
WrittenDays(kind) == {log[k].day : k \in {j \in DOMAIN log : IsWrite(log[j], kind)}}

C30_FlushReleasesAll ==
    /\ [][(pc = "trades_loop" /\ Len(log') > Len(log)) => day_bufs' = <<>>]_vars
    /\ [](pc = "done" => /\ day_bufs = <<>>
                         /\ WrittenTradeRows = total)

\* a run completed in which a flush inside the loop wrote rows of a day and
\* a later flush wrote further rows of the same day
C30_Witness ==
    /\ pc = "done" /\ day_bufs = <<>> /\ total >= 2
    /\ \E k1, k2 \in TradeWrites : k1 < k2 /\ log[k1].day = log[k2].day

\* C31: for flush_rows >= 1, once a trade record has been processed fewer
\* than flush_rows rows are buffered over all days together, and the record
\* that brings the buffered rows to flush_rows is the one whose processing
\* writes them all and leaves no buffer.
C31_FlushAtThreshold ==
    [][(/\ cfg.flush_rows >= 1
        /\ pc = "trades_loop"
        /\ Len(recs_todo') < Len(recs_todo))
       => /\ BufferedRows(day_bufs') < cfg.flush_rows
          /\ (total' = total + 1 /\ BufferedRows(day_bufs) + 1 >= cfg.flush_rows)
             => /\ day_bufs' = <<>>
                /\ WrittenTradeRows' = WrittenTradeRows + BufferedRows(day_bufs) + 1]_vars

\* with flush_rows 2, the second accepted record, of another day than the
\* first, brought the buffered rows to the threshold: the two days, of one
\* row each, were written by the same flush inside the loop
C31_Witness ==
    /\ pc = "trades_loop" /\ cfg.flush_rows = 2 /\ total = 2
    /\ day_bufs = <<>> /\ Len(log) >= 2
    /\ IsWrite(log[Len(log)], "trades") /\ IsWrite(log[Len(log) - 1], "trades")
    /\ log[Len(log)].day # log[Len(log) - 1].day
    /\ Len(log[Len(log)].rows) = 1 /\ Len(log[Len(log) - 1].rows) = 1

IsFileIO(e) == e.op \in {"open", "write"}

Reorderings(s) ==
    {[i \in DOMAIN s |-> s[p[i]]] :
        p \in {q \in [DOMAIN s -> DOMAIN s] : \A i, j \in DOMAIN s :
                                                 q[i] = q[j] => i = j}}

\* C33: the selected file is the same for every order of the candidate
\* list, and among the eligible candidates of the selected year and month
\* it is the one with the greatest path.
C33_OrderIndependent ==
    rs.state = "returned" =>
        /\ \A files \in Reorderings(rs.files) :
               resolve_scid(files, rs.root) = rs.result
        /\ \A f \in Range(rs.files) :
               (/\ Eligible(f, rs.root)
                /\ f.yy = rs.result.yy /\ f.mon = rs.result.mon)
               => f.sfx <= rs.result.sfx

\* two eligible candidates of the same year and month, the one with the
\* greater path first in the list: it is the one selected
C33_Witness ==
    /\ rs.state = "returned" /\ Len(rs.files) = 2
    /\ Eligible(rs.files[1], rs.root) /\ Eligible(rs.files[2], rs.root)
    /\ rs.files[1].yy = rs.files[2].yy /\ rs.files[1].mon = rs.files[2].mon
    /\ rs.files[1].sfx > rs.files[2].sfx
    /\ rs.result = rs.files[1]

\* C34: in every state of the viewer the replay runs only if replay data
\* is loaded, the replay index is 0 when no data is loaded, and it is
\* between 0 and the number of loaded rows otherwise.
C34_ReplayStateConsistent ==
    /\ vw.r_running => vw.r_ts # {}
    /\ vw.r_idx >= 0
    /\ vw.r_ts = {} => vw.r_idx = 0
    /\ \A n \in vw.r_ts : vw.r_idx <= n

\* a running replay whose last tick stopped at the end of the data, short
\* of a whole step
C34_Witness ==
    /\ vw.r_running /\ vw.r_idx > R_STEP
    /\ vw.r_idx % R_STEP # 0
    /\ vw.r_ts = {vw.r_idx}

=============================================================================
